---- MODULE Spec2Model ----
(***************************************************************************)
(* babygogo: an in-process stream engine.  A Stream owns a chain of        *)
(* Filters (Mapper, Reducer, Joiner); every append of a filter to a stream *)
(* starts a generator of Filter.__call__ that relays elements to the       *)
(* filter's `next` generator.  Stream.process pushes one element through   *)
(* the chain synchronously.                                                *)
(*                                                                         *)
(* Payload values are encoded as tuples so that values of different Python *)
(* types can be compared: None is <<>>, the integer n is <<n>> and the     *)
(* 2-tuple (a, b) is <<a, b>> with a and b encoded values.                 *)
(***************************************************************************)
EXTENDS Integers, Sequences, FiniteSets, TLC

\* ------------------------------------------------------------------ bounds
\* longest chain built on the stream of the chain specification
MaxFilters == 3
\* number of Stream.process calls of a run of the chain specification
MaxCalls == 3
\* largest integer payload fed to a chain
MaxInput == 1
\* largest max_size a Joiner is built with
MaxSize == 2
\* number of Stream.process calls of a run of the join specification
MaxFeeds == 4

VARIABLES streams, filters, gens, calls, source

vars == <<streams, filters, gens, calls, source>>

\* ------------------------------------------------------------------ values
None == <<>>

IntV(n) == <<n>>

PairV(a, b) == <<a, b>>

IsInt(v) == Len(v) = 1

IsPair(v) == Len(v) = 2

\* An absent object reference (a Python None held in head / next).
NoRef == 0

\* Element(stream_id, data)
Element(sid, d) == [stream_id |-> sid, data |-> d]

\* Filter.process returning None instead of an Element.
NoElement == [stream_id |-> NoRef, data |-> None]

\* ------------------------------------------------------- user transforms
\* The callables handed to map(): times_2 and the collecting Cache of the
\* tests, plus inc (x + 1) and nonzero (raises ValueError on 0, else the
\* identity) as further sample transforms.  Arithmetic on a payload that is
\* not an integer raises TypeError.  The result is [fault, val]; fault = ""
\* means the transform returned val.
MapFns == {"times_2", "inc", "collect", "nonzero"}

Returned(v) == [fault |-> "", val |-> v]

Raised(kind) == [fault |-> kind, val |-> None]

Apply(f, x) ==
    CASE f = "times_2" -> IF IsInt(x) THEN Returned(IntV(x[1] * 2)) ELSE Raised("TypeError")
      [] f = "inc"     -> IF IsInt(x) THEN Returned(IntV(x[1] + 1)) ELSE Raised("TypeError")
      [] f = "collect" -> Returned(None)
      [] f = "nonzero" -> IF x = IntV(0) THEN Raised("ValueError") ELSE Returned(x)

\* The callables handed to reduce(): add of the tests (element + acc) and
\* sub (element - acc).
ReduceFns == {"add", "sub"}

Apply2(f, x, acc) ==
    IF IsInt(x) /\ IsInt(acc)
    THEN CASE f = "add" -> Returned(IntV(x[1] + acc[1]))
           [] f = "sub" -> Returned(IntV(x[1] - acc[1]))
    ELSE Raised("TypeError")

\* ------------------------------------------------------------- pylru cache
\* pylru.lrucache as the Joiner uses it: a sequence of <<key, value>> entries,
\* most recently used first, of at most `size` entries.
EmptyCache == <<>>

CacheKeys(c) == {c[i][1] : i \in DOMAIN c}

CacheIndex(c, k) == CHOOSE i \in DOMAIN c : c[i][1] = k

CacheValue(c, k) == c[CacheIndex(c, k)][2]

CacheWithout(c, k) == SelectSeq(c, LAMBDA e : e[1] # k)

\* Mutant of LruGet: a hit takes the entry out of the cache.
LruGetPop(c, k) ==
    IF k \in CacheKeys(c)
    THEN [val |-> CacheValue(c, k), cache |-> CacheWithout(c, k)]
    ELSE [val |-> None, cache |-> c]

\* lrucache.get(key): the value and the cache after the lookup; a hit makes the
\* entry the most recently used one, a miss returns None.
LruGet(c, k) ==
    IF k \in CacheKeys(c)
    THEN [val |-> CacheValue(c, k),
          cache |-> <<<<k, CacheValue(c, k)>>>> \o CacheWithout(c, k)]
    ELSE [val |-> None, cache |-> c]

\* Mutant of LruSet: a new key never evicts.
LruSetUnbounded(c, size, k, v) == <<<<k, v>>>> \o CacheWithout(c, k)

\* lrucache[key] = value: an existing key is updated and made most recent; a
\* new key takes the place of the least recently used entry of a full cache.
LruSet(c, size, k, v) ==
    IF k \in CacheKeys(c)
    THEN <<<<k, v>>>> \o CacheWithout(c, k)
    ELSE IF Len(c) >= size
         THEN <<<<k, v>>>> \o SubSeq(c, 1, size - 1)
         ELSE <<<<k, v>>>> \o c

\* ----------------------------------------------------------------- filters
\* One record shape for the three Filter classes; the fields a class does not
\* have keep their empty values.
BlankFilter ==
    [kind |-> "", f |-> "", acc |-> None, next |-> NoRef,
     left |-> NoRef, right |-> NoRef, target |-> NoRef, max_size |-> 0,
     size_left |-> 0, size_right |-> 0,
     cache_left |-> EmptyCache, cache_right |-> EmptyCache]

Mapper(f) == [BlankFilter EXCEPT !.kind = "Mapper", !.f = f]

Reducer(f, initial) == [BlankFilter EXCEPT !.kind = "Reducer", !.f = f, !.acc = initial]

Joiner(left, right, target, max_size) ==
    [BlankFilter EXCEPT !.kind = "Joiner", !.left = left, !.right = right,
                        !.target = target, !.max_size = max_size,
                        !.size_left = max_size, !.size_right = max_size]

\* What process() hands back: the filter after the call, the element it
\* returned (NoElement for None) and the fault it raised ("" for none).
Outcome(fl, result, fault) == [filter |-> fl, result |-> result, fault |-> fault]

MapperProcess(fl, element) ==
    LET r == Apply(fl.f, element.data)
    IN  IF r.fault # ""
        THEN Outcome(fl, NoElement, r.fault)
        ELSE Outcome(fl, Element(element.stream_id, r.val), "")

\* Mutant of ReducerProcess: the accumulator is not stored back.
ReducerProcessForgetful(fl, element) ==
    LET r == Apply2(fl.f, element.data, fl.acc)
    IN  IF r.fault # ""
        THEN Outcome(fl, NoElement, r.fault)
        ELSE Outcome(fl, Element(element.stream_id, r.val), "")

ReducerProcess(fl, element) ==
    LET r == Apply2(fl.f, element.data, fl.acc)
    IN  IF r.fault # ""
        THEN Outcome(fl, NoElement, r.fault)
        ELSE Outcome([fl EXCEPT !.acc = r.val], Element(element.stream_id, r.val), "")

\* Mutant of JoinerLeftArrival: the lookup goes to the arrival's own cache.
JoinerLeftArrivalOwnSide(fl, key, value) ==
    LET got == LruGet(fl.cache_left, key)
    IN  IF got.val # None
        THEN Outcome([fl EXCEPT !.cache_left = got.cache],
                     Element(fl.target, PairV(key, PairV(value, got.val))), "")
        ELSE Outcome([fl EXCEPT !.cache_left = LruSet(got.cache, fl.size_left, key, value)],
                     NoElement, "")

\* Mutant of JoinerLeftArrival: the joined element keeps the left stream's id.
JoinerLeftArrivalKeepsId(fl, key, value) ==
    LET got == LruGet(fl.cache_right, key)
    IN  IF got.val # None
        THEN Outcome([fl EXCEPT !.cache_right = got.cache],
                     Element(fl.left, PairV(key, PairV(value, got.val))), "")
        ELSE Outcome([fl EXCEPT !.cache_right = got.cache,
                                !.cache_left = LruSet(@, fl.size_left, key, value)],
                     NoElement, "")

\* Joiner.process, the branch of an element of the left stream: look the key
\* up in the right cache; join on a value that is not None, else cache the
\* arrival on the left.
JoinerLeftArrival(fl, key, value) ==
    LET got == LruGet(fl.cache_right, key)
    IN  IF got.val # None
        THEN Outcome([fl EXCEPT !.cache_right = got.cache],
                     Element(fl.target, PairV(key, PairV(value, got.val))), "")
        ELSE Outcome([fl EXCEPT !.cache_right = got.cache,
                                !.cache_left = LruSet(@, fl.size_left, key, value)],
                     NoElement, "")

\* Mutant of JoinerRightArrival: the pair is built as in the left branch,
\* arriving value first.
JoinerRightArrivalSwapped(fl, key, value) ==
    LET got == LruGet(fl.cache_left, key)
    IN  IF got.val # None
        THEN Outcome([fl EXCEPT !.cache_left = got.cache],
                     Element(fl.target, PairV(key, PairV(value, got.val))), "")
        ELSE Outcome([fl EXCEPT !.cache_left = got.cache,
                                !.cache_right = LruSet(@, fl.size_right, key, value)],
                     NoElement, "")

\* Mutant of JoinerRightArrival: a match deletes the matched entry.
JoinerRightArrivalConsuming(fl, key, value) ==
    LET got == LruGet(fl.cache_left, key)
    IN  IF got.val # None
        THEN Outcome([fl EXCEPT !.cache_left = CacheWithout(got.cache, key)],
                     Element(fl.target, PairV(key, PairV(got.val, value))), "")
        ELSE Outcome([fl EXCEPT !.cache_left = got.cache,
                                !.cache_right = LruSet(@, fl.size_right, key, value)],
                     NoElement, "")

\* Joiner.process, the branch of any other element: the same with the sides
\* exchanged, the cached left value first in the pair.
JoinerRightArrival(fl, key, value) ==
    LET got == LruGet(fl.cache_left, key)
    IN  IF got.val # None
        THEN Outcome([fl EXCEPT !.cache_left = got.cache],
                     Element(fl.target, PairV(key, PairV(got.val, value))), "")
        ELSE Outcome([fl EXCEPT !.cache_left = got.cache,
                                !.cache_right = LruSet(@, fl.size_right, key, value)],
                     NoElement, "")

\* Joiner.process: element.data[0] and element.data[1] raise TypeError on a
\* payload that is no tuple.
JoinerProcess(fl, element) ==
    IF ~IsPair(element.data)
    THEN Outcome(fl, NoElement, "TypeError")
    ELSE IF element.stream_id = fl.left
         THEN JoinerLeftArrival(fl, element.data[1], element.data[2])
         ELSE JoinerRightArrival(fl, element.data[1], element.data[2])

FilterProcess(fl, element) ==
    CASE fl.kind = "Mapper"  -> MapperProcess(fl, element)
      [] fl.kind = "Reducer" -> ReducerProcess(fl, element)
      [] fl.kind = "Joiner"  -> JoinerProcess(fl, element)

\* ------------------------------------------------------------ the relay
\* The running state of one Stream.process call: the filters, the generators,
\* the stages invoked so far and the exception in flight ("" for none).
Visit(fid, element) == [filter |-> fid, element |-> element]

\* Mutant of Escaping: every exception leaving a generator is wrapped.
EscapingWrapped(fault) == "RuntimeError"

\* The exception a generator frame lets out for one raised inside it.
Escaping(fault) == IF fault = "StopIteration" THEN "RuntimeError" ELSE fault

\* generator.send(element) on generator g, with `running` the generators whose
\* frames are on the call stack.  A finished generator raises StopIteration, a
\* running one ValueError (already executing).  Otherwise the generator's
\* loop body runs: process the element and, for a result that is not None,
\* send_next it.  An exception leaving the loop body finishes the generator;
\* a StopIteration leaving it is turned into RuntimeError by the interpreter
\* (Escaping), any other exception leaves it as it is.
RECURSIVE Send(_, _, _, _)
Send(g, element, st, running) ==
    IF ~st.gens[g].alive THEN [st EXCEPT !.fault = "StopIteration"]
    ELSE IF g \in running THEN [st EXCEPT !.fault = "ValueError"]
    ELSE LET fid == st.gens[g].filter
             r == FilterProcess(st.filters[fid], element)
             st1 == [st EXCEPT !.filters[fid] = r.filter,
                               !.trace = Append(@, Visit(fid, element))]
         IN  IF r.fault # ""
             THEN [st1 EXCEPT !.gens[g].alive = FALSE, !.fault = Escaping(r.fault)]
             ELSE IF r.result = NoElement \/ r.filter.next = NoRef
             THEN st1
             ELSE LET st2 == Send(r.filter.next, r.result, st1, running \cup {g})
                  IN  IF st2.fault = ""
                      THEN st2
                      ELSE [st2 EXCEPT !.gens[g].alive = FALSE,
                                       !.fault = Escaping(@)]

\* ----------------------------------------------------------------- streams
World(ss, fs, gs) == [streams |-> ss, filters |-> fs, gens |-> gs]

EmptyWorld == World(<<>>, <<>>, <<>>)

\* Stream(): a new stream with no head and no filters; its id is its index.
NewStream(w) ==
    [w EXCEPT !.streams = Append(@, [head |-> NoRef, filters |-> <<>>])]

\* Mutant of StreamAppend: the new generator is linked after the stream's
\* first filter instead of its last.
StreamAppendFirst(w, s, fid) ==
    LET it == Len(w.gens) + 1
        gs == Append(w.gens, [filter |-> fid, alive |-> TRUE])
        fls == w.streams[s].filters
    IN  IF w.streams[s].head = NoRef
        THEN [w EXCEPT !.gens = gs,
                       !.streams[s].head = it,
                       !.streams[s].filters = Append(@, fid)]
        ELSE [w EXCEPT !.gens = gs,
                       !.filters[fls[1]].next = it,
                       !.streams[s].filters = Append(@, fid)]

\* Stream.append(fltr) for filter fid of the world: start a generator of the
\* filter, make it the head of an empty stream or the `next` of the stream's
\* last filter, and record the filter as the stream's last.
StreamAppend(w, s, fid) ==
    LET it == Len(w.gens) + 1
        gs == Append(w.gens, [filter |-> fid, alive |-> TRUE])
        fls == w.streams[s].filters
    IN  IF w.streams[s].head = NoRef
        THEN [w EXCEPT !.gens = gs,
                       !.streams[s].head = it,
                       !.streams[s].filters = Append(@, fid)]
        ELSE [w EXCEPT !.gens = gs,
                       !.filters[fls[Len(fls)]].next = it,
                       !.streams[s].filters = Append(@, fid)]

\* Stream.map(f)
StreamMap(w, s, f) ==
    StreamAppend([w EXCEPT !.filters = Append(@, Mapper(f))], s, Len(w.filters) + 1)

\* Stream.reduce(f, initial)
StreamReduce(w, s, f, initial) ==
    StreamAppend([w EXCEPT !.filters = Append(@, Reducer(f, initial))], s, Len(w.filters) + 1)

\* join(left, right, max_size): one Joiner appended to left, to right and to
\* the new stream; the new stream is the last stream of the result.
Join(w, left, right, max_size) ==
    LET w1 == NewStream(w)
        new_stream == Len(w1.streams)
        joiner == Len(w.filters) + 1
        w2 == [w1 EXCEPT !.filters = Append(@, Joiner(left, right, new_stream, max_size))]
    IN  StreamAppend(StreamAppend(StreamAppend(w2, left, joiner), right, joiner),
                     new_stream, joiner)

\* Mutant of StreamProcess: the head is used without the test for None.
StreamProcessUnguarded(s, data) ==
    LET st0 == [filters |-> filters, gens |-> gens, trace |-> <<>>, fault |-> ""]
    IN  IF streams[s].head # NoRef
        THEN Send(streams[s].head, Element(s, data), st0, {})
        ELSE [st0 EXCEPT !.fault = "AttributeError"]

\* Stream.process(data): the state the call leaves behind.
StreamProcess(s, data) ==
    LET st0 == [filters |-> filters, gens |-> gens, trace |-> <<>>, fault |-> ""]
    IN  IF streams[s].head # NoRef
        THEN Send(streams[s].head, Element(s, data), st0, {})
        ELSE st0

\* ----------------------------------------------------------------- actions
\* One record per Stream.process call made so far: the stream and the data,
\* the filters as they were before the call, the stages the call invoked (in
\* order, each with the element it was handed) and the fault the caller saw.
Call(s, data, st) ==
    [stream |-> s, data |-> data, pre |-> filters, trace |-> st.trace, fault |-> st.fault]

Process(s, data) ==
    LET st == StreamProcess(s, data)
    IN  /\ filters' = st.filters
        /\ gens' = st.gens
        /\ calls' = Append(calls, Call(s, data, st))
        /\ UNCHANGED streams

SetWorld(w) ==
    /\ streams' = w.streams
    /\ filters' = w.filters
    /\ gens' = w.gens

TheWorld == World(streams, filters, gens)

\* ----------------------------------------------------------------- sources
\* A Source: its class, the stream attached to it (Source._stream), the
\* values its feed still holds, where start() is (idle, started, done or
\* raised, with the fault that left start()), the warnings logged and the
\* values taken from the feed.
NewSource(kind, itr) ==
    [kind |-> kind, stream |-> NoRef, itr |-> itr, state |-> "idle",
     fault |-> "", warnings |-> 0, received |-> 0]

\* No source object: the specifications that feed streams directly.
NoSource == NewSource("", <<>>)

Inputs == {IntV(n) : n \in 0..MaxInput}

Initials == {IntV(0), IntV(1)}

\* The chain specification: one stream, built stage by stage before the
\* first element is fed, then fed integers.
Init ==
    /\ streams = NewStream(EmptyWorld).streams
    /\ filters = <<>>
    /\ gens = <<>>
    /\ calls = <<>>
    /\ source = NoSource

Map ==
    /\ calls = <<>>
    /\ Len(filters) < MaxFilters
    /\ \E f \in MapFns : SetWorld(StreamMap(TheWorld, 1, f))
    /\ UNCHANGED <<calls, source>>

Reduce ==
    /\ calls = <<>>
    /\ Len(filters) < MaxFilters
    /\ \E f \in ReduceFns, initial \in Initials : SetWorld(StreamReduce(TheWorld, 1, f, initial))
    /\ UNCHANGED <<calls, source>>

Feed ==
    /\ Len(calls) < MaxCalls
    /\ \E data \in Inputs : Process(1, data)
    /\ UNCHANGED source

Next == Map \/ Reduce \/ Feed

Spec == Init /\ [][Next]_vars

\* ------------------------------------------------- claims on single chains
NumStages == Len(streams[1].filters)

Stage(i) == filters[streams[1].filters[i]]

\* The visits a call paid to filter fid, in order.
VisitsOf(c, fid) == SelectSeq(c.trace, LAMBDA v : v.filter = fid)

\* fs[1], then fs[2], ... applied to x; a fault of any of them is the outcome.
RECURSIVE Compose(_, _)
Compose(fs, x) ==
    IF fs = <<>> THEN Returned(x)
    ELSE LET r == Apply(Head(fs), x)
         IN  IF r.fault # "" THEN r ELSE Compose(Tail(fs), r.val)

\* f folded over xs in order, starting from initial.
RECURSIVE Fold(_, _, _)
Fold(f, initial, xs) ==
    IF xs = <<>> THEN initial
    ELSE Apply2(f, xs[Len(xs)], Fold(f, initial, SubSeq(xs, 1, Len(xs) - 1))).val

MapChain == NumStages >= 1 /\ \A i \in 1..NumStages : Stage(i).kind = "Mapper"

UpstreamFns == [i \in 1..(NumStages - 1) |-> Stage(i).f]

\* C1: on a stream built by map(f1), ..., map(fn), every process(x) that
\* returns hands the last stage exactly one element, f(n-1)(...f1(x)...),
\* stamped with the stream's id: the chain is the left-to-right composition,
\* call by call.
C1_MapComposes ==
    MapChain =>
        \A i \in DOMAIN calls :
            calls[i].fault = "" =>
                LET up == Compose(UpstreamFns, calls[i].data)
                IN  /\ up.fault = ""
                    /\ VisitsOf(calls[i], streams[1].filters[NumStages])
                         = <<Visit(streams[1].filters[NumStages], Element(1, up.val))>>

C1_Witness ==
    /\ MapChain
    /\ NumStages = 3
    /\ Stage(1).f = "times_2" /\ Stage(2).f = "inc"
    /\ Len(calls) >= 2
    /\ calls[1].data # calls[2].data
    /\ \A i \in DOMAIN calls : calls[i].fault = ""

ReduceChain == NumStages >= 2 /\ Stage(1).kind = "Reducer"

InputsUpTo(n) == [j \in 1..n |-> calls[j].data]

\* C2: on a stream built by reduce(f, initial) and a further stage, as long
\* as no call has raised, the Nth call hands the stage after the reducer
\* exactly one element: f folded over the N inputs in call order from initial.
C2_ReduceFolds ==
    ReduceChain =>
        \A n \in DOMAIN calls :
            (\A j \in 1..n : calls[j].fault = "") =>
                VisitsOf(calls[n], streams[1].filters[2])
                  = <<Visit(streams[1].filters[2],
                            Element(1, Fold(Stage(1).f, calls[1].pre[streams[1].filters[1]].acc,
                                            InputsUpTo(n))))>>

C2_Witness ==
    /\ ReduceChain
    /\ Stage(1).f = "sub"
    /\ Stage(2).f = "collect"
    /\ Len(calls) = 3
    /\ calls[1].data # calls[2].data
    /\ \A i \in DOMAIN calls : calls[i].fault = ""

\* What the transform of filter fl does with the element it is handed.
TransformOutcome(fl, element) ==
    IF fl.kind = "Reducer"
    THEN Apply2(fl.f, element.data, fl.acc)
    ELSE Apply(fl.f, element.data)

C11_FaultIsLocal ==
    \A i, j \in DOMAIN calls :
        (i < j /\ calls[i].fault # "" /\ NumStages >= 1) =>
            /\ calls[j].trace # <<>>
            /\ calls[j].trace[1].filter = streams[1].filters[1]
            /\ calls[j].fault \notin {"StopIteration", "RuntimeError"}


\* The join specification: target = join(left, right, max_size) followed by
\* target.map(collect), then fed (key, value) pairs on the left and the right.
Left == 1

Right == 2

Target == 3

TheJoiner == 1

Collector == 2

\* The keys fed to a run: one more than the capacity of its Joiner.
Keys == {IntV(n) : n \in 1..(filters[TheJoiner].max_size + 1)}

Vals == {None, IntV(1)}

JoinWorld(max_size) ==
    StreamMap(Join(NewStream(NewStream(EmptyWorld)), Left, Right, max_size), Target, "collect")

InitJoin ==
    /\ \E max_size \in 1..MaxSize :
          /\ streams = JoinWorld(max_size).streams
          /\ filters = JoinWorld(max_size).filters
          /\ gens = JoinWorld(max_size).gens
    /\ calls = <<>>
    /\ source = NoSource

FeedLeft ==
    /\ Len(calls) < MaxFeeds
    /\ \E k \in Keys, v \in Vals : Process(Left, PairV(k, v))
    /\ UNCHANGED source

FeedRight ==
    /\ Len(calls) < MaxFeeds
    /\ \E k \in Keys, v \in Vals : Process(Right, PairV(k, v))
    /\ UNCHANGED source

NextJoin == FeedLeft \/ FeedRight

SpecJoin == InitJoin /\ [][NextJoin]_vars

\* ---------------------------------------------------------- claims on joins
\* The Joiner as call i found it and as call i left it.
JoinerBefore(i) == calls[i].pre[TheJoiner]

JoinerAfter(i) == IF i = Len(calls) THEN filters[TheJoiner] ELSE calls[i + 1].pre[TheJoiner]

KeyOf(i) == calls[i].data[1]

ValOf(i) == calls[i].data[2]

\* The payloads call i delivered to the stage after the Joiner, in order.
Delivered(i) ==
    LET vs == VisitsOf(calls[i], Collector)
    IN  [p \in DOMAIN vs |-> vs[p].element.data]

\* The cache of the side a call fed, and the cache of the other side.
OwnCache(fl, s) == IF s = Left THEN fl.cache_left ELSE fl.cache_right

OppositeCache(fl, s) == IF s = Left THEN fl.cache_right ELSE fl.cache_left

HeldKeys(fl) == CacheKeys(fl.cache_left) \cup CacheKeys(fl.cache_right)

\* C3: with key k in neither cache, left.process((k, a)) delivers nothing to
\* the stage after the Joiner, and a right.process((k, b)) that follows it
\* delivers exactly one element, (k, (a, b)).
C3_JoinPairs ==
    \A i \in DOMAIN calls :
        (calls[i].stream = Left /\ KeyOf(i) \notin HeldKeys(JoinerBefore(i))) =>
            /\ Delivered(i) = <<>>
            /\ (/\ i + 1 \in DOMAIN calls
                /\ calls[i + 1].stream = Right
                /\ KeyOf(i + 1) = KeyOf(i))
               => Delivered(i + 1) = <<PairV(KeyOf(i), PairV(ValOf(i), ValOf(i + 1)))>>

\* C3 for a left value that is not None (the case the code handles).
C3_JoinPairsNotNone ==
    \A i \in DOMAIN calls :
        (/\ calls[i].stream = Left
         /\ KeyOf(i) \notin HeldKeys(JoinerBefore(i))
         /\ ValOf(i) # None) =>
            /\ Delivered(i) = <<>>
            /\ (/\ i + 1 \in DOMAIN calls
                /\ calls[i + 1].stream = Right
                /\ KeyOf(i + 1) = KeyOf(i))
               => Delivered(i + 1) = <<PairV(KeyOf(i), PairV(ValOf(i), ValOf(i + 1)))>>

\* C4: every element delivered by the Joiner is (k, (l, r)) with (k, l) fed
\* on the left and (k, r) fed on the right, whichever side triggered it.
C4_JoinedSides ==
    \A i \in DOMAIN calls :
        \A p \in DOMAIN Delivered(i) :
            LET d == Delivered(i)[p]
            IN  /\ IsPair(d)
                /\ IsPair(d[2])
                /\ \E j \in 1..i : calls[j].stream = Left /\ calls[j].data = PairV(d[1], d[2][1])
                /\ \E j \in 1..i : calls[j].stream = Right /\ calls[j].data = PairV(d[1], d[2][2])

C4_Witness ==
    /\ \E i \in DOMAIN calls :
          /\ calls[i].stream = Left
          /\ Delivered(i) # <<>>
          /\ Delivered(i)[1][2][1] # Delivered(i)[1][2][2]
    /\ \E i \in DOMAIN calls :
          /\ calls[i].stream = Right
          /\ Delivered(i) # <<>>
          /\ Delivered(i)[1][2][1] # Delivered(i)[1][2][2]

FedOn(s, k) == \E j \in DOMAIN calls : calls[j].stream = s /\ KeyOf(j) = k

\* C5: a key fed on one side only is never the key of a delivered element.
C5_OneSideNeverEmits ==
    \A k \in Keys :
        ~(FedOn(Left, k) /\ FedOn(Right, k)) =>
            \A i \in DOMAIN calls :
                \A p \in DOMAIN Delivered(i) : Delivered(i)[p][1] # k

C5_Witness ==
    \E k \in Keys :
        /\ Cardinality({j \in DOMAIN calls : calls[j].stream = Left /\ KeyOf(j) = k}) >= 2
        /\ ~FedOn(Right, k)
        /\ \E i \in DOMAIN calls : Delivered(i) # <<>>

\* C6: each cache holds at most max_size keys, and both caches were built
\* with that capacity.
C6_CachesBounded ==
    LET j == filters[TheJoiner]
    IN  /\ Len(j.cache_left) <= j.max_size
        /\ Len(j.cache_right) <= j.max_size
        /\ Cardinality(CacheKeys(j.cache_left)) = Len(j.cache_left)
        /\ Cardinality(CacheKeys(j.cache_right)) = Len(j.cache_right)
        /\ j.size_left = j.max_size
        /\ j.size_right = j.max_size

C6_Witness ==
    \E i \in DOMAIN calls :
        /\ Len(OwnCache(JoinerBefore(i), calls[i].stream)) = JoinerBefore(i).max_size
        /\ KeyOf(i) \notin HeldKeys(JoinerBefore(i))
        /\ KeyOf(i) \in CacheKeys(OwnCache(JoinerAfter(i), calls[i].stream))

\* Calls i..i+n feed one side with n+1 distinct keys, none of them held by
\* the opposite cache when it arrives.
UnmatchedRun(i, n) ==
    /\ i + n \in DOMAIN calls
    /\ \A a \in i..(i + n) :
          /\ calls[a].stream = calls[i].stream
          /\ KeyOf(a) \notin CacheKeys(OppositeCache(JoinerBefore(a), calls[a].stream))
    /\ \A a, b \in i..(i + n) : a # b => KeyOf(a) # KeyOf(b)

\* Call j comes after call i with only opposite-side arrivals since.
OppositeSince(i, j) ==
    /\ j \in DOMAIN calls
    /\ j > i
    /\ \A a \in (i + 1)..j : calls[a].stream # calls[i].stream

JoinedPayload(s, k, own, other) ==
    IF s = Left THEN PairV(k, PairV(own, other)) ELSE PairV(k, PairV(other, own))

\* C7: after max_size + 1 distinct unmatched keys in a row on one side, that
\* side's cache holds all of them but the first; an opposite-side arrival
\* with the first key then delivers nothing and raises nothing, one with any
\* of the others delivers its joined element.
C7_EvictsOldest ==
    \A i \in DOMAIN calls :
        LET n == JoinerBefore(i).max_size
            s == calls[i].stream
        IN  UnmatchedRun(i, n) =>
                /\ CacheKeys(OwnCache(JoinerAfter(i + n), s)) = {KeyOf(a) : a \in (i + 1)..(i + n)}
                /\ \A j \in DOMAIN calls :
                      OppositeSince(i + n, j) =>
                          /\ KeyOf(j) = KeyOf(i)
                                => Delivered(j) = <<>> /\ calls[j].fault = ""
                          /\ \A a \in (i + 1)..(i + n) :
                                KeyOf(j) = KeyOf(a)
                                    => Delivered(j) = <<JoinedPayload(s, KeyOf(a), ValOf(a), ValOf(j))>>

\* C7 without its last part: the run evicts exactly its first key, and an
\* opposite-side arrival with that key delivers nothing and raises nothing.
C7_EvictsOldestOnly ==
    \A i \in DOMAIN calls :
        LET n == JoinerBefore(i).max_size
            s == calls[i].stream
        IN  UnmatchedRun(i, n) =>
                /\ CacheKeys(OwnCache(JoinerAfter(i + n), s)) = {KeyOf(a) : a \in (i + 1)..(i + n)}
                /\ \A j \in DOMAIN calls :
                      (OppositeSince(i + n, j) /\ KeyOf(j) = KeyOf(i))
                          => Delivered(j) = <<>> /\ calls[j].fault = ""

\* Call i removed key k from cache X of the Joiner.
Dropped(i, k, X) ==
    /\ k \in CacheKeys(IF X = Left THEN JoinerBefore(i).cache_left ELSE JoinerBefore(i).cache_right)
    /\ k \notin CacheKeys(IF X = Left THEN JoinerAfter(i).cache_left ELSE JoinerAfter(i).cache_right)

\* C8: a match does not consume the cached entry: when right.process((k, b1))
\* is joined with the cached left (k, a), a right.process((k, b2)) that
\* follows it is joined with a as well; and a key leaves a cache only as the
\* least recently used entry of a full cache into which a new key is stored.
C8_MatchKeepsEntry ==
    \A i \in DOMAIN calls :
        /\ (/\ calls[i].stream = Right
            /\ KeyOf(i) \in CacheKeys(JoinerBefore(i).cache_left)
            /\ Delivered(i) = <<PairV(KeyOf(i),
                                      PairV(CacheValue(JoinerBefore(i).cache_left, KeyOf(i)), ValOf(i)))>>
            /\ i + 1 \in DOMAIN calls
            /\ calls[i + 1].stream = Right
            /\ KeyOf(i + 1) = KeyOf(i))
           => Delivered(i + 1) = <<PairV(KeyOf(i),
                                         PairV(CacheValue(JoinerBefore(i).cache_left, KeyOf(i)),
                                               ValOf(i + 1)))>>
        /\ \A X \in {Left, Right}, k \in Keys :
              Dropped(i, k, X) =>
                  LET c == OwnCache(JoinerBefore(i), X)
                  IN  /\ calls[i].stream = X
                      /\ Len(c) = JoinerBefore(i).max_size
                      /\ c[Len(c)][1] = k
                      /\ KeyOf(i) \notin CacheKeys(c)
                      /\ KeyOf(i) \in CacheKeys(OwnCache(JoinerAfter(i), X))

C8_Witness ==
    \E i \in DOMAIN calls :
        /\ i + 2 \in DOMAIN calls
        /\ calls[i].stream = Left
        /\ calls[i + 1].stream = Right /\ KeyOf(i + 1) = KeyOf(i)
        /\ calls[i + 2].stream = Right /\ KeyOf(i + 2) = KeyOf(i)
        /\ ValOf(i + 1) # ValOf(i + 2)
        /\ Delivered(i + 1) = <<PairV(KeyOf(i), PairV(ValOf(i), ValOf(i + 1)))>>
        /\ Delivered(i + 2) = <<PairV(KeyOf(i), PairV(ValOf(i), ValOf(i + 2)))>>

\* C9 as claimed: after an arrival is joined with the entry of key k in the
\* opposite cache, k is no longer in that cache.
C9_MatchRemoves ==
    \A i \in DOMAIN calls :
        Delivered(i) # <<>> =>
            KeyOf(i) \notin CacheKeys(OppositeCache(JoinerAfter(i), calls[i].stream))

\* C9 as amended: after an arrival is joined with the entry of key k in the
\* opposite cache, k is still in that cache, with the same value.
C9_MatchKeeps ==
    \A i \in DOMAIN calls :
        Delivered(i) # <<>> =>
            /\ KeyOf(i) \in CacheKeys(OppositeCache(JoinerBefore(i), calls[i].stream))
            /\ KeyOf(i) \in CacheKeys(OppositeCache(JoinerAfter(i), calls[i].stream))
            /\ CacheValue(OppositeCache(JoinerAfter(i), calls[i].stream), KeyOf(i))
                 = CacheValue(OppositeCache(JoinerBefore(i), calls[i].stream), KeyOf(i))

C9_Witness ==
    /\ \E i \in DOMAIN calls : calls[i].stream = Left /\ Delivered(i) # <<>>
    /\ \E i \in DOMAIN calls : calls[i].stream = Right /\ Delivered(i) # <<>>

\* ------------------------------------------------------ the source drivers
\* number of values of the feed a source is started against
MaxItems == 3

RECURSIVE SeqsUpTo(_, _)
SeqsUpTo(S, n) ==
    IF n = 0 THEN {<<>>}
    ELSE SeqsUpTo(S, n - 1) \cup {Append(q, x) : q \in {r \in SeqsUpTo(S, n - 1) : Len(r) = n - 1}, x \in S}

\* The stream a source may be attached to: map(nonzero).map(collect).
SourceWorld == StreamMap(StreamMap(NewStream(EmptyWorld), 1, "nonzero"), 1, "collect")

InitSource ==
    /\ streams = SourceWorld.streams
    /\ filters = SourceWorld.filters
    /\ gens = SourceWorld.gens
    /\ calls = <<>>
    /\ \E kind \in {"Iterable", "Kafka"}, itr \in SeqsUpTo(Inputs, MaxItems) :
          source = NewSource(kind, itr)

\* Source.attach(stream)
Attach ==
    /\ source.state = "idle"
    /\ source.stream = NoRef
    /\ source' = [source EXCEPT !.stream = 1]
    /\ UNCHANGED <<streams, filters, gens, calls>>

\* start() is called and enters its loop over the feed.
Start ==
    /\ source.state = "idle"
    /\ source' = [source EXCEPT !.state = "started"]
    /\ UNCHANGED <<streams, filters, gens, calls>>

\* The loop of start() ends with the feed.
Exhausted ==
    /\ source.state = "started"
    /\ source.itr = <<>>
    /\ source' = [source EXCEPT !.state = "done"]
    /\ UNCHANGED <<streams, filters, gens, calls>>

\* The source after it took the next value of the feed and the delivery
\* ended with `fault` ("" for none): a fault leaves start().
Taken(fault) ==
    [source EXCEPT !.itr = Tail(@), !.received = @ + 1,
                   !.fault = fault,
                   !.state = IF fault = "" THEN @ ELSE "raised"]

\* IterableSource.start, one turn of its loop: self._stream.process(e), which
\* raises AttributeError when no stream is attached (self._stream is None).
IterableDeliver ==
    /\ source.kind = "Iterable"
    /\ source.state = "started"
    /\ source.itr # <<>>
    /\ IF source.stream # NoRef
       THEN /\ Process(source.stream, Head(source.itr))
            /\ source' = Taken(StreamProcess(source.stream, Head(source.itr)).fault)
       ELSE /\ source' = Taken("AttributeError")
            /\ UNCHANGED <<filters, gens, calls>>
    /\ UNCHANGED streams

\* KafkaSource.start, one turn of its loop: self._process(record.value), which
\* hands the value to the attached stream or logs a warning and discards it.
KafkaDeliver ==
    /\ source.kind = "Kafka"
    /\ source.state = "started"
    /\ source.itr # <<>>
    /\ IF source.stream # NoRef
       THEN /\ Process(source.stream, Head(source.itr))
            /\ source' = Taken(StreamProcess(source.stream, Head(source.itr)).fault)
       ELSE /\ source' = [Taken("") EXCEPT !.warnings = @ + 1]
            /\ UNCHANGED <<filters, gens, calls>>
    /\ UNCHANGED streams

NextSource == Attach \/ Start \/ Exhausted \/ IterableDeliver \/ KafkaDeliver

SpecSource == InitSource /\ [][NextSource]_vars

\* C12: a source with no stream attached never raises and never calls
\* Stream.process; every value it has taken from its feed was discarded with
\* a warning.  This is claimed of the iterable source and of Source._process.
C12_UnattachedDiscards ==
    source.stream = NoRef =>
        /\ source.state # "raised"
        /\ source.fault = ""
        /\ calls = <<>>
        /\ source.warnings = source.received

\* C12 for the source that delivers through Source._process.
C12_ProcessDiscards ==
    (source.stream = NoRef /\ source.kind = "Kafka") =>
        /\ source.state # "raised"
        /\ source.fault = ""
        /\ calls = <<>>
        /\ source.warnings = source.received

\* ------------------------------------------------------- stream construction
\* Programs that build streams with Stream(), map, reduce and join on any two
\* of their streams, and then feed them.
MaxStreams == 3

MaxStages == 3

MaxGraphCalls == 2

GraphFns == {"nonzero"}

GraphData == {PairV(IntV(1), IntV(1))}

InitGraph ==
    /\ streams = EmptyWorld.streams
    /\ filters = EmptyWorld.filters
    /\ gens = EmptyWorld.gens
    /\ calls = <<>>
    /\ source = NoSource

GraphStream ==
    /\ calls = <<>>
    /\ Len(streams) < MaxStreams
    /\ SetWorld(NewStream(TheWorld))
    /\ UNCHANGED <<calls, source>>

GraphMap ==
    /\ calls = <<>>
    /\ Len(filters) < MaxStages
    /\ \E s \in DOMAIN streams, f \in GraphFns : SetWorld(StreamMap(TheWorld, s, f))
    /\ UNCHANGED <<calls, source>>

GraphReduce ==
    /\ calls = <<>>
    /\ Len(filters) < MaxStages
    /\ \E s \in DOMAIN streams : SetWorld(StreamReduce(TheWorld, s, "add", IntV(0)))
    /\ UNCHANGED <<calls, source>>

GraphJoin ==
    /\ calls = <<>>
    /\ Len(streams) < MaxStreams
    /\ Len(filters) < MaxStages
    /\ \E left, right \in DOMAIN streams : SetWorld(Join(TheWorld, left, right, 1))
    /\ UNCHANGED <<calls, source>>

GraphFeed ==
    /\ Len(calls) < MaxGraphCalls
    /\ \E s \in DOMAIN streams, d \in GraphData : Process(s, d)
    /\ UNCHANGED source

NextGraph == GraphStream \/ GraphMap \/ GraphReduce \/ GraphJoin \/ GraphFeed

SpecGraph == InitGraph /\ [][NextGraph]_vars

\* The filter a filter's `next` generator runs (NoRef for none) in world w.
NextOf(w, fid) ==
    IF w.filters[fid].next = NoRef THEN NoRef ELSE w.gens[w.filters[fid].next].filter

\* The filters reached from the filters of S by following `next` at most n
\* times.
RECURSIVE Following(_, _, _)
Following(w, S, n) ==
    IF n = 0
    THEN S
    ELSE Following(w, S \cup ({NextOf(w, fid) : fid \in S} \ {NoRef}), n - 1)

\* The filters downstream of filter fid: those reached by one `next` or more.
Downstream(w, fid) ==
    Following(w, {NextOf(w, fid)} \ {NoRef}, Len(w.filters))

\* The filters an element handed to stream s can travel through, in order:
\* the head's filter and then each `next`, cut off after n filters.
RECURSIVE PathFrom(_, _, _)
PathFrom(w, fid, n) ==
    IF fid = NoRef \/ n = 0
    THEN <<>>
    ELSE <<fid>> \o PathFrom(w, NextOf(w, fid), n - 1)

Pipeline(w, s) ==
    IF w.streams[s].head = NoRef
    THEN <<>>
    ELSE PathFrom(w, w.gens[w.streams[s].head].filter, Len(w.filters) + 1)

NextWorld == World(streams', filters', gens')

\* C13: process on a stream to which no stage was appended raises nothing,
\* invokes no stage and leaves every stream, filter (caches and accumulators
\* included) and generator as it was.
C13_EmptyProcessIsNoOp ==
    [][(Len(calls') = Len(calls) + 1
        /\ streams[calls'[Len(calls')].stream].filters = <<>>)
       => /\ calls'[Len(calls')].fault = ""
          /\ calls'[Len(calls')].trace = <<>>
          /\ streams' = streams
          /\ filters' = filters
          /\ gens' = gens]_vars

\* A call on a stream without stages, made after a call on another stream
\* invoked stages and changed their state.
C13_Witness ==
    /\ Len(calls) = 2
    /\ streams[calls[2].stream].filters = <<>>
    /\ calls[1].trace # <<>>
    /\ calls[1].pre # calls[2].pre
    /\ calls[2].trace = <<>>
    /\ calls[2].fault = ""

\* ------------------------------------------------------------ nested joins
\* outer = join(join(a, b).map(nonzero), c) or join(c, join(a, b).map(nonzero))
\* with a collecting stage on outer, next to a stream d.reduce(add, 0) with
\* a collecting stage of its own.
MaxNestedCalls == 3

InnerA == 1

InnerB == 2

OuterC == 3

Plain == 4

InnerTarget == 5

OuterTarget == 6

InnerJoiner == 3

OuterJoiner == 5

OuterCollector == 6

NestedKeys == {IntV(1), IntV(2)}

NestedWorld(innerSide) ==
    LET w0 == NewStream(NewStream(NewStream(NewStream(EmptyWorld))))
        w1 == StreamMap(StreamReduce(w0, Plain, "add", IntV(0)), Plain, "collect")
        w2 == StreamMap(Join(w1, InnerA, InnerB, MaxSize), InnerTarget, "nonzero")
        w3 == IF innerSide = "left"
              THEN Join(w2, InnerTarget, OuterC, MaxSize)
              ELSE Join(w2, OuterC, InnerTarget, MaxSize)
    IN  StreamMap(w3, OuterTarget, "collect")

InitNested ==
    /\ \E innerSide \in {"left", "right"} :
          /\ streams = NestedWorld(innerSide).streams
          /\ filters = NestedWorld(innerSide).filters
          /\ gens = NestedWorld(innerSide).gens
    /\ calls = <<>>
    /\ source = NoSource

FeedNested ==
    /\ Len(calls) < MaxNestedCalls
    /\ \E s \in {InnerA, InnerB, OuterC}, k \in NestedKeys, v \in Inputs :
          Process(s, PairV(k, v))
    /\ UNCHANGED source

FeedPlain ==
    /\ Len(calls) < MaxNestedCalls
    /\ \E d \in Inputs : Process(Plain, d)
    /\ UNCHANGED source

NextNested == FeedNested \/ FeedPlain

SpecNested == InitNested /\ [][NextNested]_vars

\* The key-to-value mapping a cache holds.
CacheMapping(c) == {c[i] : i \in DOMAIN c}

\* What a Joiner that went from `before` to `after` and passed on `emitted`
\* (NoElement for nothing) shows when it took (k, v) as an arrival on `side`:
\* without an emission (k, v) is held on that side and the other side's
\* mapping is as before; with one, the other side held k and the joined pair
\* has the left value first.
TakenAs(side, before, after, k, v, emitted) ==
    LET own(fl) == IF side = "left" THEN fl.cache_left ELSE fl.cache_right
        opp(fl) == IF side = "left" THEN fl.cache_right ELSE fl.cache_left
    IN  IF emitted = NoElement
        THEN /\ <<k, v>> \in CacheMapping(own(after))
             /\ CacheMapping(opp(after)) = CacheMapping(opp(before))
        ELSE /\ k \in CacheKeys(opp(before))
             /\ CacheMapping(own(after)) = CacheMapping(own(before))
             /\ emitted.data =
                   PairV(k, IF side = "left"
                            THEN PairV(v, CacheValue(opp(before), k))
                            ELSE PairV(CacheValue(opp(before), k), v))

FiltersAfter(i) == IF i = Len(calls) THEN filters ELSE calls[i + 1].pre

\* The side of the outer Joiner that the inner join's stream is on.
InnerSide == IF filters[OuterJoiner].left = InnerTarget THEN "left" ELSE "right"

\* C14: the element a Mapper or Reducer passes on carries the stream id of the
\* element it was handed, and the element a Joiner passes on carries the id
\* of the Joiner's target stream, which is neither its left nor its right
\* stream.  An element the inner Joiner passed on is taken by the outer Joiner
\* as a left arrival in join(join(a, b), c) and as a right arrival in
\* join(c, join(a, b)).
C14_IdentityStamping ==
    \A i \in DOMAIN calls :
        LET t == calls[i].trace
        IN  /\ \A n \in 1..(Len(t) - 1) :
                  LET fl == calls[i].pre[t[n].filter]
                  IN  IF fl.kind = "Joiner"
                      THEN /\ t[n + 1].element.stream_id = fl.target
                           /\ t[n + 1].element.stream_id \notin {fl.left, fl.right}
                      ELSE t[n + 1].element.stream_id = t[n].element.stream_id
            /\ \A n \in 2..Len(t) :
                  (t[n].filter = OuterJoiner /\ t[1].filter = InnerJoiner) =>
                      TakenAs(InnerSide,
                              calls[i].pre[OuterJoiner], FiltersAfter(i)[OuterJoiner],
                              t[n].element.data[1], t[n].element.data[2],
                              IF n < Len(t) THEN t[n + 1].element ELSE NoElement)

\* In join(c, join(a, b)): a call whose element went through the inner
\* Joiner, was joined again by the outer Joiner and reached the collecting
\* stage, after an earlier call left the inner join's output cached in the
\* outer Joiner.
C14_Witness ==
    /\ InnerSide = "right"
    /\ \E i \in DOMAIN calls :
          /\ Len(calls[i].trace) = 4
          /\ calls[i].trace[1].filter = InnerJoiner
          /\ calls[i].trace[3].filter = OuterJoiner
          /\ calls[i].trace[4].filter = OuterCollector
          /\ calls[i].trace[4].element.stream_id = OuterTarget

\* ------------------------------------------------- feeding the join's target
\* The join of SpecJoin with process also called on the stream join returned.
MaxOpenFeeds == 2

FeedUpstream ==
    /\ Len(calls) < MaxOpenFeeds
    /\ \E s \in {Left, Right}, k \in Keys, v \in Vals : Process(s, PairV(k, v))
    /\ UNCHANGED source

FeedTarget ==
    /\ Len(calls) < MaxOpenFeeds
    /\ \E k \in Keys, v \in Vals : Process(Target, PairV(k, v))
    /\ UNCHANGED source

NextOpen == FeedUpstream \/ FeedTarget

SpecOpen == InitJoin /\ [][NextOpen]_vars

\* C15: every element the Joiner processes carries the id of its left or of
\* its right stream, and only a call that entered through the right stream
\* stores into the right cache.
C15_SideTestExhaustive ==
    \A i \in DOMAIN calls :
        /\ \A n \in DOMAIN calls[i].trace :
              calls[i].trace[n].filter = TheJoiner =>
                  calls[i].trace[n].element.stream_id \in
                      {filters[TheJoiner].left, filters[TheJoiner].right}
        /\ calls[i].stream # Right =>
              CacheMapping(JoinerAfter(i).cache_right) =
                  CacheMapping(JoinerBefore(i).cache_right)

\* ------------------------------------------------ lookups, hits and misses
\* Call i found its key in the cache of the side opposite to the one it fed.
KeyHeldOpposite(i) ==
    KeyOf(i) \in CacheKeys(OppositeCache(JoinerBefore(i), calls[i].stream))

\* Call i delivered a joined element to the stage after the Joiner.
Emitted(i) == Delivered(i) # <<>>

\* C16: an arrival emits a joined element exactly when its key is in the
\* opposite side's cache, whatever value is cached with it, None included.
C16_EmitIffKeyHeld ==
    \A i \in DOMAIN calls : Emitted(i) <=> KeyHeldOpposite(i)

\* What the code does instead: an arrival emits exactly when its key is in the
\* opposite cache with a value that is not None.
C16_EmitIffValueHeld ==
    \A i \in DOMAIN calls :
        Emitted(i) <=>
            /\ KeyHeldOpposite(i)
            /\ CacheValue(OppositeCache(JoinerBefore(i), calls[i].stream), KeyOf(i)) # None

\* The caches of call i's Joiner change as on a miss (hit = FALSE: the own
\* side afterwards maps the key to the arriving value and to nothing else,
\* the opposite mapping is as before) or as on a hit (no mapping changes).
CachesChangeAs(hit, i) ==
    LET s == calls[i].stream
        ownBefore == CacheMapping(OwnCache(JoinerBefore(i), s))
        ownAfter == CacheMapping(OwnCache(JoinerAfter(i), s))
        oppBefore == CacheMapping(OppositeCache(JoinerBefore(i), s))
        oppAfter == CacheMapping(OppositeCache(JoinerAfter(i), s))
    IN  IF hit
        THEN ownAfter = ownBefore /\ oppAfter = oppBefore
        ELSE /\ {e \in ownAfter : e[1] = KeyOf(i)} = {<<KeyOf(i), ValOf(i)>>}
             /\ ownAfter \ {<<KeyOf(i), ValOf(i)>>} \subseteq ownBefore
             /\ oppAfter = oppBefore

\* C17: the Joiner changes its caches only on a miss and only on the arriving
\* side: on a miss the arrival's own cache then maps k to v and the opposite
\* mapping is unchanged; on a hit, the key being in the opposite cache, no
\* mapping changes and the arrival is not stored.
C17_CachesChangeOnMissOnly ==
    \A i \in DOMAIN calls : CachesChangeAs(KeyHeldOpposite(i), i)

\* The same with a hit taken to be an arrival that emitted.
C17_CachesChangeUnlessEmitted ==
    \A i \in DOMAIN calls : CachesChangeAs(Emitted(i), i)

\* C20: no key is in the left cache and in the right cache at the same time.
C20_NoKeyInBothCaches ==
    CacheKeys(filters[TheJoiner].cache_left) \cap CacheKeys(filters[TheJoiner].cache_right) = {}

\* The same for runs that never feed None as a value.
C20_NoKeyInBothNotNone ==
    (\A i \in DOMAIN calls : ValOf(i) # None) => C20_NoKeyInBothCaches

\* --------------------------------------------------- the graph of filters
\* C18: after any construction no filter reaches itself by following `next`.
C18_StageGraphAcyclic ==
    \A fid \in DOMAIN filters : fid \notin Downstream(TheWorld, fid)

\* The same for constructions that never join a stream with itself.
C18_AcyclicWithoutSelfJoin ==
    (\A fid \in DOMAIN filters : filters[fid].kind = "Joiner" =>
                                     filters[fid].left # filters[fid].right)
        => C18_StageGraphAcyclic

\* C19: map or reduce on stream p links the new filter after p's last one,
\* leaves every filter of every stream reachable from that stream's head, and
\* leaves the filters an element of any other stream travels through as they
\* were.
C19_AppendIsLocal ==
    [][\A p \in DOMAIN streams :
          (/\ Len(streams') = Len(streams)
           /\ Len(filters') = Len(filters) + 1
           /\ streams'[p].filters # streams[p].filters)
          => LET fls == streams[p].filters
             IN  /\ fls # <<>> => NextOf(NextWorld, fls[Len(fls)]) = Len(filters')
                 /\ \A q \in DOMAIN streams :
                       \A n \in DOMAIN streams'[q].filters :
                           \E m \in DOMAIN Pipeline(NextWorld, q) :
                               Pipeline(NextWorld, q)[m] = streams'[q].filters[n]
                 /\ \A q \in DOMAIN streams \ {p} :
                       Pipeline(NextWorld, q) = Pipeline(TheWorld, q)]_vars

====
